---- MODULE Spec2Model ----
(***************************************************************************)
(* Model of two refactorings of abracadabra:                               *)
(*   - convert-if-else-to-switch (convertIfElseToSwitch, updateCode,       *)
(*     hasChildWhichMatchesSelection, class IfElseToSwitch);               *)
(*   - the occurrence classifier of extract-variable (createOccurrence,    *)
(*     MemberExpressionOccurrence, PartialTemplateLiteralOccurrence).      *)
(* Code is held in parsed form: a syntax tree without source locations is  *)
(* the text, Parse adds the locations the parser computes from the text,   *)
(* Print gives the token sequence.  Positions of the conversion part are   *)
(* token offsets in the text.                                              *)
(***************************************************************************)
EXTENDS Integers, Sequences, FiniteSets, TLC

VARIABLES
    code,                  \* the document held by the editor (text, parsed form)
    selection,             \* the editor's selection, [start, end]
    calls,                 \* editor.write / editor.showError calls, in order
    invocations,           \* invocations of the command so far
    pc,                    \* position of the IfElseToSwitch walk
    path,                  \* IfElseToSwitch.path.node
    node,                  \* the link convertNode is working on
    discriminant,          \* IfElseToSwitch.discriminant
    cases,                 \* IfElseToSwitch.cases
    canConvertAllBranches, \* IfElseToSwitch.canConvertAllBranches
    result,                \* what convert() returned
    input,                 \* createOccurrence's arguments (path.node, loc, selection)
    occurrence,            \* the Occurrence createOccurrence returned
    thrown,                \* TRUE when an error escaped an operation
    declaration,           \* the result of toVariableDeclaration
    built,                 \* PartialTemplateLiteralOccurrence objects constructed
    answers,               \* the user's answers to askModificationDetails, in order
    modification           \* the result of the modification getter

convVars == <<code, selection, calls, invocations, pc, path, node, discriminant, cases,
              canConvertAllBranches, result>>
occVars == <<input, occurrence, thrown, declaration, built, answers, modification>>
vars == <<code, selection, calls, invocations, pc, path, node, discriminant, cases,
          canConvertAllBranches, result, input, occurrence, thrown, declaration,
          built, answers, modification>>

(***************************************************************************)
(* Bounds of the model.                                                    *)
(***************************************************************************)
MaxIfs == 2          \* conditional statements in the initial document
MaxCommands == 1     \* invocations of the command on one document
MaxSelectionWidth == 1   \* tokens a selection extends past its start
MaxQuasis == 2       \* text segments of a template literal
MaxPrompts == 2      \* askModificationDetails calls on one occurrence

(***************************************************************************)
(* Syntax tree.                                                            *)
(***************************************************************************)
Null == [type |-> "Null"]

Identifier(name) == [type |-> "Identifier", name |-> name]
StringLiteral(value) == [type |-> "StringLiteral", value |-> value]
NumericLiteral(value) == [type |-> "NumericLiteral", value |-> value]
BinaryExpression(operator, left, right) ==
    [type |-> "BinaryExpression", operator |-> operator, left |-> left, right |-> right]
ExpressionStatement(callee) == [type |-> "ExpressionStatement", callee |-> callee]
ReturnStatement == [type |-> "ReturnStatement"]
BlockStatement(body) == [type |-> "BlockStatement", body |-> body]
IfStatement(test, consequent, alternate) ==
    [type |-> "IfStatement", test |-> test, consequent |-> consequent, alternate |-> alternate]

\* Builders of new nodes: a built node has no source location.
breakStatement == [type |-> "BreakStatement"]
switchCase(test, consequent) ==
    [type |-> "SwitchCase", test |-> test, consequent |-> consequent]
switchStatement(disc, cs) ==
    [type |-> "SwitchStatement", discriminant |-> disc, cases |-> cs]

HasLoc(n) == "loc" \in DOMAIN n

RECURSIVE Tokens(_)
RECURSIVE TokensOfList(_)
\* print: the text of a node, as tokens
Tokens(n) ==
    CASE n.type = "Null" -> <<>>
      [] n.type = "Identifier" -> <<n.name>>
      [] n.type = "StringLiteral" -> <<"'" \o n.value \o "'">>
      [] n.type = "NumericLiteral" -> <<n.value>>
      [] n.type = "BinaryExpression" ->
           Tokens(n.left) \o <<n.operator>> \o Tokens(n.right)
      [] n.type = "ExpressionStatement" -> <<n.callee \o "();">>
      [] n.type = "ReturnStatement" -> <<"return;">>
      [] n.type = "BreakStatement" -> <<"break;">>
      [] n.type = "BlockStatement" -> <<"{">> \o TokensOfList(n.body) \o <<"}">>
      [] n.type = "IfStatement" ->
           <<"if", "(">> \o Tokens(n.test) \o <<")">> \o Tokens(n.consequent)
             \o (IF n.alternate = Null THEN <<>> ELSE <<"else">> \o Tokens(n.alternate))
      [] n.type = "SwitchCase" ->
           (IF n.test = Null THEN <<"default", ":">>
                             ELSE <<"case">> \o Tokens(n.test) \o <<":">>)
             \o TokensOfList(n.consequent)
      [] n.type = "SwitchStatement" ->
           <<"switch", "(">> \o Tokens(n.discriminant) \o <<")", "{">>
             \o TokensOfList(n.cases) \o <<"}">>

TokensOfList(s) ==
    IF s = <<>> THEN <<>> ELSE Tokens(Head(s)) \o TokensOfList(Tail(s))

print(n) == Tokens(n)

RECURSIVE Annotate(_, _)
RECURSIVE AnnotateList(_, _)
\* the last token of a list of parsed nodes that starts at s
EndOfList(l, s) == IF l = <<>> THEN s - 1 ELSE l[Len(l)].loc.end

SetLoc(n, s, e) == n @@ ("loc" :> [start |-> s, end |-> e])

\* parse: every node of the text gets the range of its tokens, [start, end]
Annotate(n, s) ==
    CASE n.type = "Null" -> n
      [] n.type \in {"Identifier", "StringLiteral", "NumericLiteral",
                     "ExpressionStatement", "ReturnStatement", "BreakStatement"} ->
           SetLoc(n, s, s)
      [] n.type = "BinaryExpression" ->
           LET left == Annotate(n.left, s)
               right == Annotate(n.right, left.loc.end + 2)
           IN SetLoc([n EXCEPT !.left = left, !.right = right], s, right.loc.end)
      [] n.type = "BlockStatement" ->
           LET body == AnnotateList(n.body, s + 1)
           IN SetLoc([n EXCEPT !.body = body], s, EndOfList(body, s + 1) + 1)
      [] n.type = "IfStatement" ->
           LET test == Annotate(n.test, s + 2)
               consequent == Annotate(n.consequent, test.loc.end + 2)
               alternate == Annotate(n.alternate, consequent.loc.end + 2)
           IN SetLoc([n EXCEPT !.test = test, !.consequent = consequent,
                               !.alternate = alternate],
                     s,
                     IF alternate = Null THEN consequent.loc.end ELSE alternate.loc.end)
      [] n.type = "SwitchCase" ->
           LET test == Annotate(n.test, s + 1)
               from == IF test = Null THEN s + 2 ELSE test.loc.end + 2
               consequent == AnnotateList(n.consequent, from)
           IN SetLoc([n EXCEPT !.test = test, !.consequent = consequent],
                     s, EndOfList(consequent, from))
      [] n.type = "SwitchStatement" ->
           LET disc == Annotate(n.discriminant, s + 2)
               cs == AnnotateList(n.cases, disc.loc.end + 3)
           IN SetLoc([n EXCEPT !.discriminant = disc, !.cases = cs],
                     s, EndOfList(cs, disc.loc.end + 3) + 1)

AnnotateList(l, s) ==
    IF l = <<>> THEN <<>>
    ELSE LET first == Annotate(Head(l), s)
         IN <<first>> \o AnnotateList(Tail(l), first.loc.end + 1)

Parse(text) == Annotate(text, 0)

RECURSIVE Strip(_)
RECURSIVE StripList(_)
\* the text a tree prints to, in parsed form: the tree without locations
Strip(n) ==
    CASE n.type = "Null" -> Null
      [] n.type = "Identifier" -> Identifier(n.name)
      [] n.type = "StringLiteral" -> StringLiteral(n.value)
      [] n.type = "NumericLiteral" -> NumericLiteral(n.value)
      [] n.type = "BinaryExpression" ->
           BinaryExpression(n.operator, Strip(n.left), Strip(n.right))
      [] n.type = "ExpressionStatement" -> ExpressionStatement(n.callee)
      [] n.type = "ReturnStatement" -> ReturnStatement
      [] n.type = "BreakStatement" -> breakStatement
      [] n.type = "BlockStatement" -> BlockStatement(StripList(n.body))
      [] n.type = "IfStatement" ->
           IfStatement(Strip(n.test), Strip(n.consequent), Strip(n.alternate))
      [] n.type = "SwitchCase" -> switchCase(Strip(n.test), StripList(n.consequent))
      [] n.type = "SwitchStatement" ->
           switchStatement(Strip(n.discriminant), StripList(n.cases))

StripList(l) ==
    IF l = <<>> THEN <<>> ELSE <<Strip(Head(l))>> \o StripList(Tail(l))

(***************************************************************************)
(* Capabilities of the syntax-tree module and of Selection.                *)
(***************************************************************************)
IsLiteral(e) == e.type \in {"StringLiteral", "NumericLiteral"}

\* ast.toSwitch: an equality comparison between an expression and a literal,
\* in either operand order, gives (discriminant, test); anything else nothing
toSwitch(test) ==
    IF test.type = "BinaryExpression" /\ test.operator = "==="
    THEN IF IsLiteral(test.right) /\ ~IsLiteral(test.left)
         THEN [type |-> "Switch", discriminant |-> test.left, test |-> test.right]
         ELSE IF IsLiteral(test.left) /\ ~IsLiteral(test.right)
              THEN [type |-> "Switch", discriminant |-> test.right, test |-> test.left]
              ELSE Null
    ELSE Null

\* ast.areEqual: deep equality of two expressions, source locations ignored
areEqual(a, b) == Strip(a) = Strip(b)

\* ast.getStatements: the body of a block, or the statement alone
getStatements(statement) ==
    IF statement.type = "BlockStatement" THEN statement.body ELSE <<statement>>

\* ast.hasFinalReturn
hasFinalReturn(statements) ==
    /\ statements # <<>>
    /\ statements[Len(statements)].type = "ReturnStatement"

\* selection.isInsidePath: the selection lies within the node's source range
isInsidePath(sel, n) ==
    /\ HasLoc(n)
    /\ n.loc.start <= sel.start
    /\ sel.end <= n.loc.end

(***************************************************************************)
(* class IfElseToSwitch, as operators on its fields                        *)
(* [discriminant, cases, canConvertAllBranches].                           *)
(***************************************************************************)
NewIfElseToSwitch ==
    [discriminant |-> Null, cases |-> <<>>, canConvertAllBranches |-> TRUE]

\* addCase that ends every case with a break, a final return or not
addCaseAlwaysBreak(self, test, statement) ==
    [self EXCEPT !.cases =
        Append(@, switchCase(test, getStatements(statement) \o <<breakStatement>>))]

addCase(self, test, statement) ==
    LET statements == getStatements(statement)
        consequent == IF hasFinalReturn(statements)
                      THEN statements
                      ELSE statements \o <<breakStatement>>
    IN [self EXCEPT !.cases = Append(@, switchCase(test, consequent))]

addDefault(self, statement) == addCase(self, Null, statement)

\* convertConsequent that takes the discriminant of every link it decomposes
convertConsequentReseed(self, statement) ==
    LET switch == toSwitch(statement.test) IN
    IF switch = Null
    THEN [self EXCEPT !.canConvertAllBranches = FALSE]
    ELSE addCase([self EXCEPT !.discriminant = switch.discriminant],
                 switch.test, statement.consequent)

\* convertConsequent that assigns canConvertAllBranches at every link
convertConsequentReset(self, statement) ==
    LET switch == toSwitch(statement.test) IN
    IF switch = Null
    THEN [self EXCEPT !.canConvertAllBranches = FALSE]
    ELSE LET seeded == IF self.discriminant = Null
                       THEN [self EXCEPT !.discriminant = switch.discriminant]
                       ELSE self
             compared == [seeded EXCEPT !.canConvertAllBranches =
                              areEqual(seeded.discriminant, switch.discriminant)]
         IN addCase(compared, switch.test, statement.consequent)

convertConsequent(self, statement) ==
    LET switch == toSwitch(statement.test) IN
    IF switch = Null
    THEN [self EXCEPT !.canConvertAllBranches = FALSE]
    ELSE LET seeded == IF self.discriminant = Null
                       THEN [self EXCEPT !.discriminant = switch.discriminant]
                       ELSE self
             compared == IF ~areEqual(seeded.discriminant, switch.discriminant)
                         THEN [seeded EXCEPT !.canConvertAllBranches = FALSE]
                         ELSE seeded
         IN addCase(compared, switch.test, statement.consequent)

RECURSIVE convertNode(_, _)
convertAlternate(self, statement) ==
    IF statement.alternate = Null THEN self
    ELSE IF statement.alternate.type = "IfStatement"
         THEN convertNode(self, statement.alternate)
         ELSE addDefault(self, statement.alternate)

convertNode(self, n) == convertAlternate(convertConsequent(self, n), n)

\* convert()'s return, from the fields the walk left
convertResult(self, n) ==
    IF self.discriminant # Null /\ self.canConvertAllBranches
    THEN switchStatement(self.discriminant, self.cases)
    ELSE n

convert(n) == convertResult(convertNode(NewIfElseToSwitch, n), n)

(***************************************************************************)
(* Traversal: updateCode and hasChildWhichMatchesSelection.                *)
(***************************************************************************)
RECURSIVE IfStatementsIn(_)
RECURSIVE IfStatementsInList(_)
\* the conditional statements path.traverse visits: every proper descendant
IfStatementsIn(n) ==
    CASE n.type = "BlockStatement" -> IfStatementsInList(n.body)
      [] n.type = "IfStatement" ->
           (IF n.consequent.type = "IfStatement" THEN {n.consequent} ELSE {})
             \cup IfStatementsIn(n.consequent)
             \cup (IF n.alternate.type = "IfStatement" THEN {n.alternate} ELSE {})
             \cup IfStatementsIn(n.alternate)
      [] n.type = "SwitchCase" -> IfStatementsInList(n.consequent)
      [] n.type = "SwitchStatement" -> IfStatementsInList(n.cases)
      [] OTHER -> {}

IfStatementsInList(l) ==
    IF l = <<>> THEN {}
    ELSE (IF Head(l).type = "IfStatement" THEN {Head(l)} ELSE {})
           \cup IfStatementsIn(Head(l)) \cup IfStatementsInList(Tail(l))

\* hasChildWhichMatchesSelection that finds no child
hasNoChildWhichMatchesSelection(n, sel) == FALSE

hasChildWhichMatchesSelection(n, sel) ==
    \E child \in IfStatementsIn(n) :
        /\ isInsidePath(sel, child)
        /\ convert(child) # child

\* the IfStatement visitor of updateCode: the node the path holds afterwards
IfStatementVisitor(n, sel) ==
    IF ~isInsidePath(sel, n) THEN n
    ELSE IF hasChildWhichMatchesSelection(n, sel) THEN n
         ELSE convert(n)

RECURSIVE Traverse(_, _)
RECURSIVE TraverseList(_, _)
\* ast.transform's walk, parents before children; a replaced node's children
\* are visited in the replacement
Traverse(n, sel) ==
    LET m == IF n.type = "IfStatement" THEN IfStatementVisitor(n, sel) ELSE n IN
    CASE m.type = "BlockStatement" -> [m EXCEPT !.body = TraverseList(m.body, sel)]
      [] m.type = "IfStatement" ->
           [m EXCEPT !.consequent = Traverse(m.consequent, sel),
                     !.alternate = Traverse(m.alternate, sel)]
      [] m.type = "SwitchCase" -> [m EXCEPT !.consequent = TraverseList(m.consequent, sel)]
      [] m.type = "SwitchStatement" -> [m EXCEPT !.cases = TraverseList(m.cases, sel)]
      [] OTHER -> m

TraverseList(l, sel) ==
    IF l = <<>> THEN <<>>
    ELSE <<Traverse(Head(l), sel)>> \o TraverseList(Tail(l), sel)

\* ast.Transformed: the new text, and whether it differs from the old text
transform(text, sel) ==
    LET ast == Parse(text)
        new == Traverse(ast, sel)
    IN [code |-> Strip(new), hasCodeChanged |-> print(new) # print(ast)]

\* updateCode that reports every walk as a change
updateCodeAlwaysChanged(text, sel) ==
    [code |-> transform(text, sel).code, hasCodeChanged |-> TRUE]

updateCode(text, sel) == transform(text, sel)

hasIfElseToConvert(text, sel) == updateCode(text, sel).hasCodeChanged

(***************************************************************************)
(* The documents and selections the conversion is run on.                  *)
(***************************************************************************)
Tests ==
    { BinaryExpression("===", Identifier("x"), StringLiteral("a")),
      BinaryExpression("===", StringLiteral("b"), Identifier("x")),
      BinaryExpression("===", Identifier("y"), StringLiteral("a")),
      BinaryExpression(">", Identifier("x"), NumericLiteral("1")) }

LeafBodies ==
    { ExpressionStatement("f"),
      BlockStatement(<<ExpressionStatement("f"), ReturnStatement>>) }

ElseBodies == { BlockStatement(<<ExpressionStatement("g")>>) }

RECURSIVE Conditionals(_, _, _)
\* the conditional statements that hold at most n conditional statements
Conditionals(n, tests, bodies) ==
    IF n = 0 THEN {}
    ELSE UNION { { IfStatement(t, c, a) :
                     t \in tests,
                     c \in bodies
                           \cup { BlockStatement(<<i>>) : i \in Conditionals(k, tests, bodies) },
                     a \in {Null} \cup ElseBodies
                           \cup Conditionals(n - 1 - k, tests, bodies) } :
                 k \in 0 .. (n - 1) }

\* documents the walk of IfElseToSwitch is run on
WalkDocuments == Conditionals(MaxIfs, Tests, LeafBodies)

\* documents the command is run on
CommandDocuments ==
    Conditionals(MaxIfs,
                 { t \in Tests : t.left.type = "Identifier" },
                 { ExpressionStatement("f") })

Selections(text) ==
    { [start |-> s, end |-> s + w] :
        s \in 0 .. (Len(print(text)) - 1), w \in 0 .. MaxSelectionWidth }

ErrorReason == [DidNotFoundIfElseToConvert |-> "DidNotFoundIfElseToConvert"]

(***************************************************************************)
(* Conversion: state machine.                                              *)
(***************************************************************************)
self == [discriminant |-> discriminant, cases |-> cases,
         canConvertAllBranches |-> canConvertAllBranches]

OccIdle == /\ input = Null
           /\ occurrence = Null
           /\ thrown = FALSE
           /\ declaration = Null
           /\ built = 0
           /\ answers = <<>>
           /\ modification = Null

Init == /\ code \in CommandDocuments
        /\ selection \in Selections(code)
        /\ calls = <<>>
        /\ invocations = 0
        /\ pc = "idle"
        /\ path = Null
        /\ node = Null
        /\ discriminant = Null
        /\ cases = <<>>
        /\ canConvertAllBranches = TRUE
        /\ result = Null
        /\ OccIdle

\* new IfElseToSwitch(path), and convert() entering convertNode(path.node)
NewWalk ==
    /\ pc = "idle"
    /\ \E n \in IfStatementsInList(<<Parse(code)>>) :
          /\ path' = n
          /\ node' = n
    /\ discriminant' = NewIfElseToSwitch.discriminant
    /\ cases' = NewIfElseToSwitch.cases
    /\ canConvertAllBranches' = NewIfElseToSwitch.canConvertAllBranches
    /\ result' = Null
    /\ pc' = "convertConsequent"
    /\ UNCHANGED <<code, selection, calls, invocations>>
    /\ UNCHANGED occVars

ConvertConsequent ==
    /\ pc = "convertConsequent"
    /\ LET next == convertConsequent(self, node) IN
          /\ discriminant' = next.discriminant
          /\ cases' = next.cases
          /\ canConvertAllBranches' = next.canConvertAllBranches
    /\ pc' = "convertAlternate"
    /\ UNCHANGED <<code, selection, calls, invocations, path, node, result>>
    /\ UNCHANGED occVars

ConvertAlternateNone ==
    /\ pc = "convertAlternate"
    /\ node.alternate = Null
    /\ pc' = "return"
    /\ UNCHANGED <<code, selection, calls, invocations, path, node, discriminant, cases,
                   canConvertAllBranches, result>>
    /\ UNCHANGED occVars

ConvertAlternateIf ==
    /\ pc = "convertAlternate"
    /\ node.alternate # Null
    /\ node.alternate.type = "IfStatement"
    /\ node' = node.alternate
    /\ pc' = "convertConsequent"
    /\ UNCHANGED <<code, selection, calls, invocations, path, discriminant, cases,
                   canConvertAllBranches, result>>
    /\ UNCHANGED occVars

ConvertAlternateDefault ==
    /\ pc = "convertAlternate"
    /\ node.alternate # Null
    /\ node.alternate.type # "IfStatement"
    /\ LET next == addDefault(self, node.alternate) IN
          /\ discriminant' = next.discriminant
          /\ cases' = next.cases
          /\ canConvertAllBranches' = next.canConvertAllBranches
    /\ pc' = "return"
    /\ UNCHANGED <<code, selection, calls, invocations, path, node, result>>
    /\ UNCHANGED occVars

ConvertReturn ==
    /\ pc = "return"
    /\ result' = convertResult(self, path)
    /\ pc' = "idle"
    /\ UNCHANGED <<code, selection, calls, invocations, path, node, discriminant, cases,
                   canConvertAllBranches>>
    /\ UNCHANGED occVars

\* the command without the return after showError
convertIfElseToSwitchCallsBoth(text, sel) ==
    LET updatedCode == updateCode(text, sel) IN
    (IF ~updatedCode.hasCodeChanged
     THEN <<[op |-> "showError", reason |-> ErrorReason.DidNotFoundIfElseToConvert,
             input |-> text]>>
     ELSE <<>>)
      \o <<[op |-> "write", code |-> updatedCode.code, input |-> text]>>

\* what one invocation of the command does with the editor
convertIfElseToSwitchCalls(text, sel) ==
    LET updatedCode == updateCode(text, sel) IN
    IF ~updatedCode.hasCodeChanged
    THEN <<[op |-> "showError", reason |-> ErrorReason.DidNotFoundIfElseToConvert,
            input |-> text]>>
    ELSE <<[op |-> "write", code |-> updatedCode.code, input |-> text]>>

\* the document after the editor calls
Document(text, cs) ==
    IF cs # <<>> /\ cs[Len(cs)].op = "write" THEN cs[Len(cs)].code ELSE text

ConvertIfElseToSwitch ==
    /\ pc = "idle"
    /\ invocations < MaxCommands
    /\ invocations' = invocations + 1
    /\ LET cs == convertIfElseToSwitchCalls(code, selection) IN
          /\ calls' = calls \o cs
          /\ code' = Document(code, cs)
    /\ path' = Null
    /\ node' = Null
    /\ discriminant' = Null
    /\ cases' = <<>>
    /\ canConvertAllBranches' = TRUE
    /\ result' = Null
    /\ UNCHANGED <<selection, pc>>
    /\ UNCHANGED occVars

\* the command, invoked on the editor's document and selection
Next == ConvertIfElseToSwitch

Spec == Init /\ [][Next]_vars

\* the walk of IfElseToSwitch over the conditionals of a document
WalkInit ==
    /\ code \in WalkDocuments
    /\ selection = [start |-> 0, end |-> 0]
    /\ calls = <<>>
    /\ invocations = 0
    /\ pc = "idle"
    /\ path = Null
    /\ node = Null
    /\ discriminant = Null
    /\ cases = <<>>
    /\ canConvertAllBranches = TRUE
    /\ result = Null
    /\ OccIdle

WalkNext ==
    \/ NewWalk
    \/ ConvertConsequent
    \/ ConvertAlternateNone
    \/ ConvertAlternateIf
    \/ ConvertAlternateDefault
    \/ ConvertReturn

WalkSpec == WalkInit /\ [][WalkNext]_vars

(***************************************************************************)
(* Occurrences of extract-variable.  Positions are (line, character); a    *)
(* node's loc holds 1-based lines and columns, a Selection 0-based lines.  *)
(***************************************************************************)
Position(line, character) == [line |-> line, character |-> character]

\* Position.fromAST / Selection.fromAST
fromAST(loc) ==
    [start |-> Position(loc.start.line - 1, loc.start.column),
     end |-> Position(loc.end.line - 1, loc.end.column)]

isSameOrBefore(p, q) ==
    \/ p.line < q.line
    \/ p.line = q.line /\ p.character <= q.character

isBefore(p, q) ==
    \/ p.line < q.line
    \/ p.line = q.line /\ p.character < q.character

isEmpty(sel) == sel.start = sel.end
isMultiLines(sel) == sel.start.line # sel.end.line
isInside(sel, other) ==
    isSameOrBefore(other.start, sel.start) /\ isSameOrBefore(sel.end, other.end)
isStrictlyInside(sel, other) ==
    isBefore(other.start, sel.start) /\ isBefore(sel.end, other.end)

isSelectableNode(n) == HasLoc(n)
isInsideNode(sel, n) == isSelectableNode(n) /\ isInside(sel, fromAST(n.loc))
isStrictlyInsidePath(sel, n) ==
    isSelectableNode(n) /\ isStrictlyInside(sel, fromAST(n.loc))

Error(message) == [type |-> "Error", message |-> message]
IsError(v) == "type" \in DOMAIN v /\ v.type = "Error"

\* Array.prototype.slice / String.prototype.slice on 0-based indices
Slice(s, from, to) ==
    LET lo == IF from < 0 THEN 0 ELSE from
        hi == IF to > Len(s) THEN Len(s) ELSE to
    IN IF lo >= hi THEN <<>> ELSE SubSeq(s, lo + 1, hi)

RECURSIVE Join(_)
\* the string a sequence of characters spells
Join(chars) == IF chars = <<>> THEN "" ELSE Head(chars) \o Join(Tail(chars))

Quoted(text) == "\"" \o text \o "\""

(***************************************************************************)
(* Nodes of the occurrence part.                                           *)
(***************************************************************************)
MemberExpression(object, property, computed) ==
    [type |-> "MemberExpression", object |-> object, property |-> property,
     computed |-> computed]
JSXText(value) == [type |-> "JSXText", value |-> value]
ObjectProperty(key, value, computed) ==
    [type |-> "ObjectProperty", key |-> key, value |-> value, computed |-> computed]
templateElement(raw) == [type |-> "TemplateElement", raw |-> raw]
templateLiteral(quasis, expressions) ==
    [type |-> "TemplateLiteral", quasis |-> quasis, expressions |-> expressions]
stringLiteral(value) == [type |-> "StringLiteral", value |-> value]
identifier(name) == [type |-> "Identifier", name |-> name]
blockStatement(body) == [type |-> "BlockStatement", body |-> body]

\* the delimiter of a template literal (a TLA+ string cannot hold a backquote)
Backquote == "^"

RECURSIVE generate(_)
RECURSIVE generateTemplate(_, _)
\* t.generate / t.print: the text of an expression
generate(n) ==
    CASE n.type = "Identifier" -> n.name
      [] n.type = "StringLiteral" -> "'" \o Join(n.value) \o "'"
      [] n.type = "JSXText" -> Join(n.value)
      [] n.type = "MemberExpression" ->
           IF n.computed
           THEN generate(n.object) \o "[" \o generate(n.property) \o "]"
           ELSE generate(n.object) \o "." \o generate(n.property)
      [] n.type = "TemplateLiteral" ->
           Backquote \o generateTemplate(n.quasis, n.expressions) \o Backquote
      [] n.type = "ObjectProperty" ->
           IF n.computed
           THEN "[" \o generate(n.key) \o "]: " \o generate(n.value)
           ELSE generate(n.key) \o ": " \o generate(n.value)

generateTemplate(quasis, expressions) ==
    IF quasis = <<>> THEN ""
    ELSE Join(Head(quasis).raw)
           \o (IF expressions = <<>> THEN ""
               ELSE "${" \o generate(Head(expressions)) \o "}")
           \o generateTemplate(Tail(quasis),
                               IF expressions = <<>> THEN <<>> ELSE Tail(expressions))

(***************************************************************************)
(* Variables (variable.ts).                                                *)
(***************************************************************************)
ReservedWords == {"class"}
Letters == {"a", "b", "c", "d"}

isValidName(name) == name # "" /\ name \notin ReservedWords

Variable(n, parent) == [type |-> "Variable", name |-> "extracted"]

StringLiteralVariable(n, parent) ==
    [type |-> "StringLiteralVariable",
     name |-> IF n.value # <<>> /\ \A i \in 1 .. Len(n.value) : n.value[i] \in Letters
              THEN Join(n.value)
              ELSE "extracted"]

MemberExpressionVariable(n, parent) ==
    [type |-> "MemberExpressionVariable",
     name |-> IF n.property.type = "Identifier" /\ ~n.computed
              THEN n.property.name
              ELSE "extracted"]

ShorthandVariable(n, parent) ==
    [type |-> "ShorthandVariable",
     name |-> n.key.name,
     isValid |-> isValidName(n.key.name)]

\* t.canBeShorthand: the node is a non-computed object property with an
\* identifier as key (ShorthandOccurrence is an Occurrence<ObjectProperty>)
canBeShorthand(n) ==
    /\ n.type = "ObjectProperty"
    /\ ~n.computed
    /\ n.key.type = "Identifier"

\* t.convertStringToTemplateLiteral: one quasi, the string without its quotes
convertStringToTemplateLiteral(n, loc) ==
    [type |-> "TemplateLiteral",
     quasis |-> << [type |-> "TemplateElement",
                    raw |-> n.value,
                    loc |-> [start |-> [line |-> loc.start.line,
                                        column |-> loc.start.column + 1],
                             end |-> [line |-> loc.end.line,
                                      column |-> loc.end.column - 1]]] >>,
     expressions |-> <<>>,
     loc |-> loc]

\* class Parts (parts.ts): the quasi's text split at the selection
Parts(text, sel, offset) ==
    LET start == sel.start.character - offset.character
        end == sel.end.character - offset.character
    IN [before |-> Slice(text, 0, start),
        selected |-> Slice(text, start, end),
        after |-> Slice(text, end, Len(text))]

(***************************************************************************)
(* class PartialTemplateLiteralOccurrence.  An operation that throws gives *)
(* Error(message).                                                         *)
(***************************************************************************)
Min(S) == CHOOSE x \in S : \A y \in S : x <= y

selectedQuasi(n, userSelection) ==
    LET found == { i \in 1 .. Len(n.quasis) : isInsideNode(userSelection, n.quasis[i]) } IN
    IF found = {}
    THEN Error("I can't find selected text in template elements")
    ELSE LET quasi == n.quasis[Min(found)] IN
         IF ~isSelectableNode(quasi)
         THEN Error("Template element is not selectable")
         ELSE [type |-> "TemplateElement", raw |-> quasi.raw, loc |-> quasi.loc,
               index |-> Min(found) - 1]

parts(n, userSelection) ==
    LET quasi == selectedQuasi(n, userSelection) IN
    IF IsError(quasi) THEN quasi
    ELSE Parts(quasi.raw, userSelection, fromAST(quasi.loc).start)

NewPartialTemplateLiteralOccurrence(n, parent, loc, userSelection) ==
    LET ps == parts(n, userSelection) IN
    IF IsError(ps) THEN ps
    ELSE [type |-> "PartialTemplateLiteralOccurrence",
          node |-> n,
          loc |-> loc,
          userSelection |-> userSelection,
          variable |-> StringLiteralVariable(stringLiteral(ps.selected),
                                             blockStatement(<<>>))]

PartialToVariableDeclaration(occ) ==
    LET ps == parts(occ.node, occ.userSelection) IN
    IF IsError(ps) THEN ps
    ELSE [name |-> occ.variable.name, value |-> Quoted(Join(ps.selected))]

\* PartialTemplateLiteralOccurrence.modification with the new expression
\* pushed after the others
PartialModificationPush(occ) ==
    LET ps == parts(occ.node, occ.userSelection)
        quasi == selectedQuasi(occ.node, occ.userSelection)
    IN IF IsError(ps) THEN ps
       ELSE IF IsError(quasi) THEN quasi
       ELSE LET quasis == occ.node.quasis
                index == quasi.index
                newTemplateLiteral ==
                    templateLiteral(
                        Slice(quasis, 0, index)
                          \o <<templateElement(ps.before), templateElement(ps.after)>>
                          \o Slice(quasis, index + 1, Len(quasis)),
                        occ.node.expressions \o <<identifier(occ.variable.name)>>)
            IN [code |-> generate(newTemplateLiteral),
                selection |-> fromAST(occ.loc),
                node |-> newTemplateLiteral]

\* PartialTemplateLiteralOccurrence.modification: { code, selection }, and
\* the template literal it printed (node)
PartialModification(occ) ==
    LET ps == parts(occ.node, occ.userSelection)
        quasi == selectedQuasi(occ.node, occ.userSelection)
    IN IF IsError(ps) THEN ps
       ELSE IF IsError(quasi) THEN quasi
       ELSE LET quasis == occ.node.quasis
                expressions == occ.node.expressions
                index == quasi.index
                newQuasis == <<templateElement(ps.before), templateElement(ps.after)>>
                newTemplateLiteral ==
                    templateLiteral(
                        Slice(quasis, 0, index) \o newQuasis
                          \o Slice(quasis, index + 1, Len(quasis)),
                        Slice(expressions, 0, index)
                          \o <<identifier(occ.variable.name)>>
                          \o Slice(expressions, index, Len(expressions)))
            IN [code |-> generate(newTemplateLiteral),
                selection |-> fromAST(occ.loc),
                node |-> newTemplateLiteral]

\* isValid without the test on the lines of loc
PartialIsValidAnyLines(n, parent, loc, userSelection) ==
    LET occ == NewPartialTemplateLiteralOccurrence(n, parent, loc, userSelection) IN
    IF IsError(occ) THEN FALSE
    ELSE IF IsError(PartialToVariableDeclaration(occ)) THEN FALSE
    ELSE IF IsError(PartialModification(occ)) THEN FALSE
    ELSE TRUE

\* isValid without the construction it tries
PartialIsValidNoProbe(n, parent, loc, userSelection) ==
    ~isMultiLines(fromAST(loc))

PartialIsValid(n, parent, loc, userSelection) ==
    IF isMultiLines(fromAST(loc)) THEN FALSE
    ELSE LET occ == NewPartialTemplateLiteralOccurrence(n, parent, loc, userSelection) IN
         IF IsError(occ) THEN FALSE
         ELSE IF IsError(PartialToVariableDeclaration(occ)) THEN FALSE
         ELSE IF IsError(PartialModification(occ)) THEN FALSE
         ELSE TRUE

\* the objects PartialTemplateLiteralOccurrence.isValid constructs
PartialIsValidBuilds(loc) == IF isMultiLines(fromAST(loc)) THEN 0 ELSE 1

(***************************************************************************)
(* createOccurrence and the other Occurrence classes.                      *)
(***************************************************************************)
DestructureStrategy == [Destructure |-> "Destructure", Preserve |-> "Preserve"]

NewOccurrence(n, loc, variable) ==
    [type |-> "Occurrence", node |-> n, loc |-> loc, variable |-> variable]

NewShorthandOccurrence(n, loc, variable) ==
    [type |-> "ShorthandOccurrence", node |-> n, loc |-> loc, variable |-> variable]

NewMemberExpressionOccurrence(n, loc, variable) ==
    [type |-> "MemberExpressionOccurrence", node |-> n, loc |-> loc,
     variable |-> variable,
     destructureStrategy |-> DestructureStrategy.Destructure]

\* the template-literal rule and the generic rule of createOccurrence:
\* [result, built]
createTemplateOrGeneric(n, parent, loc, sel) ==
    IF n.type = "TemplateLiteral" /\ ~isEmpty(sel)
    THEN IF PartialIsValid(n, parent, loc, sel)
         THEN [result |-> NewPartialTemplateLiteralOccurrence(n, parent, loc, sel),
               built |-> PartialIsValidBuilds(loc) + 1]
         ELSE [result |-> NewOccurrence(n, loc, Variable(n, parent)),
               built |-> PartialIsValidBuilds(loc)]
    ELSE [result |-> NewOccurrence(n, loc, Variable(n, parent)), built |-> 0]

\* createOccurrence that takes the shorthand variable without asking isValid
createOccurrenceAnyShorthand(n, parent, loc, sel) ==
    IF canBeShorthand(n)
    THEN [result |-> NewShorthandOccurrence(n, loc, ShorthandVariable(n, parent)),
          built |-> 0]
    ELSE IF n.type = "MemberExpression"
    THEN [result |-> NewMemberExpressionOccurrence(n, loc,
                                                   MemberExpressionVariable(n, parent)),
          built |-> 0]
    ELSE IF n.type = "StringLiteral"
    THEN IF ~isEmpty(sel) /\ isStrictlyInsidePath(sel, n)
         THEN createTemplateOrGeneric(convertStringToTemplateLiteral(n, loc),
                                      parent, loc, sel)
         ELSE [result |-> NewOccurrence(n, loc, StringLiteralVariable(n, parent)),
               built |-> 0]
    ELSE createTemplateOrGeneric(n, parent, loc, sel)

\* createOccurrence(path, loc, selection): [result, built]
createOccurrence(n, parent, loc, sel) ==
    IF canBeShorthand(n) /\ ShorthandVariable(n, parent).isValid
    THEN [result |-> NewShorthandOccurrence(n, loc, ShorthandVariable(n, parent)),
          built |-> 0]
    ELSE IF n.type = "MemberExpression"
    THEN [result |-> NewMemberExpressionOccurrence(n, loc,
                                                   MemberExpressionVariable(n, parent)),
          built |-> 0]
    ELSE IF n.type = "StringLiteral"
    THEN IF ~isEmpty(sel) /\ isStrictlyInsidePath(sel, n)
         THEN \* path.replaceWith(...), then createOccurrence on the new node
              createTemplateOrGeneric(convertStringToTemplateLiteral(n, loc),
                                      parent, loc, sel)
         ELSE [result |-> NewOccurrence(n, loc, StringLiteralVariable(n, parent)),
               built |-> 0]
    ELSE createTemplateOrGeneric(n, parent, loc, sel)

\* Occurrence.toVariableDeclaration(code)
OccurrenceToVariableDeclaration(occ, text) ==
    [name |-> occ.variable.name,
     value |-> IF occ.node.type = "JSXText" THEN Quoted(text) ELSE text]

\* MemberExpressionOccurrence.toVariableDeclaration(code)
MemberToVariableDeclaration(occ, text) ==
    IF occ.node.computed THEN OccurrenceToVariableDeclaration(occ, text)
    ELSE IF occ.destructureStrategy = DestructureStrategy.Preserve
         THEN OccurrenceToVariableDeclaration(occ, text)
         ELSE [name |-> "{ " \o occ.variable.name \o " }",
               value |-> generate(occ.node.object)]

toVariableDeclaration(occ, text) ==
    CASE occ.type = "MemberExpressionOccurrence" -> MemberToVariableDeclaration(occ, text)
      [] occ.type = "PartialTemplateLiteralOccurrence" -> PartialToVariableDeclaration(occ)
      [] OTHER -> OccurrenceToVariableDeclaration(occ, text)

\* Selection.extendStartToEndOf
extendStartToEndOf(sel, other) == [start |-> other.end, end |-> sel.end]

\* Variable.id: the text put in place of the extracted code
VariableId(variable) == variable.name

\* Occurrence.modification
OccurrenceModification(occ) ==
    [code |-> VariableId(occ.variable), selection |-> fromAST(occ.loc)]

\* ShorthandOccurrence.modification
ShorthandModification(occ) ==
    [code |-> "",
     selection |-> extendStartToEndOf(fromAST(occ.loc), fromAST(occ.node.key.loc))]

getModification(occ) ==
    CASE occ.type = "ShorthandOccurrence" -> ShorthandModification(occ)
      [] occ.type = "PartialTemplateLiteralOccurrence" -> PartialModification(occ)
      [] OTHER -> OccurrenceModification(occ)

\* askModificationDetails that falls back to the default on a dismissed prompt
MemberAskModificationDetailsReset(occ, choice) ==
    [occ EXCEPT !.destructureStrategy =
        IF choice # Null THEN choice.value ELSE DestructureStrategy.Destructure]

\* MemberExpressionOccurrence.askModificationDetails, given editor.askUser's answer
MemberAskModificationDetails(occ, choice) ==
    IF choice # Null THEN [occ EXCEPT !.destructureStrategy = choice.value] ELSE occ

askModificationDetails(occ, choice) ==
    IF occ.type = "MemberExpressionOccurrence"
    THEN MemberAskModificationDetails(occ, choice)
    ELSE occ

(***************************************************************************)
(* The nodes, locations and selections createOccurrence is called with.    *)
(* The caller passes the node's own loc and a selection inside the node.   *)
(***************************************************************************)
RECURSIVE Advance(_, _)
\* the AST position reached from pos after a text
Advance(pos, chars) ==
    IF chars = <<>> THEN pos
    ELSE Advance(IF Head(chars) = "\n"
                 THEN [line |-> pos.line + 1, column |-> 0]
                 ELSE [line |-> pos.line, column |-> pos.column + 1],
                 Tail(chars))

StartOfNode == [line |-> 1, column |-> 0]

LocOf(chars) == [start |-> StartOfNode, end |-> Advance(StartOfNode, chars)]

\* the selections that lie inside a node with text chars
SelectionsIn(chars) ==
    LET positions == { Advance(StartOfNode, SubSeq(chars, 1, k)) : k \in 0 .. Len(chars) }
    IN { [start |-> Position(s.line - 1, s.column), end |-> Position(e.line - 1, e.column)] :
           <<s, e>> \in { pe \in positions \X positions :
                            isSameOrBefore(Position(pe[1].line, pe[1].column),
                                           Position(pe[2].line, pe[2].column)) } }

QuasiTexts == { <<"a", "b">>, <<"c", "\n", "d">> }

RECURSIVE ParseQuasis(_, _, _, _)
\* the quasis and expressions of a template literal whose text segments are
\* raws, the first starting at pos; quasi number missing gets no loc
ParseQuasis(raws, pos, i, missing) ==
    LET end == Advance(pos, Head(raws))
        quasi == IF i = missing THEN templateElement(Head(raws))
                 ELSE templateElement(Head(raws)) @@ ("loc" :> [start |-> pos, end |-> end])
    IN IF Len(raws) = 1
       THEN [quasis |-> <<quasi>>, expressions |-> <<>>, end |-> end]
       ELSE LET from == Advance(end, <<"$", "{">>)
                expression == identifier("e")
                                @@ ("loc" :> [start |-> from, end |-> Advance(from, <<"e">>)])
                rest == ParseQuasis(Tail(raws), Advance(from, <<"e", "}">>), i + 1, missing)
            IN [quasis |-> <<quasi>> \o rest.quasis,
                expressions |-> <<expression>> \o rest.expressions,
                end |-> rest.end]

RECURSIVE TemplateText(_)
TemplateText(raws) ==
    IF Len(raws) = 1 THEN Head(raws)
    ELSE Head(raws) \o <<"$", "{", "e", "}">> \o TemplateText(Tail(raws))

\* a node with its text, and the loc the caller passes with it
TemplateInputs ==
    { LET chars == <<Backquote>> \o TemplateText(raws) \o <<Backquote>>
          parsed == ParseQuasis(raws, Advance(StartOfNode, <<Backquote>>), 1, missing)
      IN [chars |-> chars,
          node |-> templateLiteral(parsed.quasis, parsed.expressions)
                     @@ ("loc" :> LocOf(chars)),
          loc |-> LocOf(chars)] :
        raws \in UNION { [1 .. n -> QuasiTexts] : n \in 1 .. MaxQuasis },
        missing \in 0 .. MaxQuasis }

StringInputs ==
    { [chars |-> <<"'">> \o v \o <<"'">>,
       node |-> stringLiteral(v) @@ ("loc" :> LocOf(<<"'">> \o v \o <<"'">>)),
       loc |-> LocOf(<<"'">> \o v \o <<"'">>)] :
        v \in { <<"a", "b">>, <<"a", " ", "b">> } }

MemberInputs ==
    { [chars |-> i.chars, node |-> i.node @@ ("loc" :> LocOf(i.chars)),
       loc |-> LocOf(i.chars)] :
        i \in { [chars |-> <<"o", ".", "v">>,
                 node |-> MemberExpression(identifier("obj"), identifier("value"), FALSE)],
                [chars |-> <<"o", "[", "v", "]">>,
                 node |-> MemberExpression(identifier("obj"), identifier("value"), TRUE)],
                [chars |-> <<"a", ".", "o", ".", "v">>,
                 node |-> MemberExpression(
                              MemberExpression(identifier("a"), identifier("obj"), FALSE),
                              identifier("value"), FALSE)] } }

\* an object property: the caller passes the loc of the property's value
PropertyInputs ==
    { [chars |-> <<"k", ":", "x">>,
       node |-> ObjectProperty(identifier(key) @@ ("loc" :> LocOf(<<"k">>)),
                               identifier("x"), computed)
                  @@ ("loc" :> LocOf(<<"k", ":", "x">>)),
       loc |-> [start |-> Advance(StartOfNode, <<"k", ":">>),
                end |-> Advance(StartOfNode, <<"k", ":", "x">>)]] :
        key \in {"value", "class"}, computed \in BOOLEAN }

OtherInputs ==
    { [chars |-> i.chars, node |-> i.node @@ ("loc" :> LocOf(i.chars)),
       loc |-> LocOf(i.chars)] :
        i \in { [chars |-> <<"x">>, node |-> identifier("x")],
                [chars |-> <<"a", "b">>, node |-> JSXText(<<"a", "b">>)] } }

OccurrenceInputs ==
    UNION { { [node |-> i.node, parent |-> [type |-> "VariableDeclarator"],
               loc |-> i.loc, selection |-> sel] :
                sel \in SelectionsIn(i.chars) } :
            i \in TemplateInputs \cup StringInputs \cup MemberInputs
                    \cup PropertyInputs \cup OtherInputs }

(***************************************************************************)
(* Occurrences: state machine.                                             *)
(***************************************************************************)
ConvIdle ==
    /\ code = Null
    /\ selection = Null
    /\ calls = <<>>
    /\ invocations = 0
    /\ pc = "idle"
    /\ path = Null
    /\ node = Null
    /\ discriminant = Null
    /\ cases = <<>>
    /\ canConvertAllBranches = TRUE
    /\ result = Null

OccurrenceInit ==
    /\ input \in OccurrenceInputs
    /\ occurrence = Null
    /\ thrown = FALSE
    /\ declaration = Null
    /\ built = 0
    /\ answers = <<>>
    /\ modification = Null
    /\ ConvIdle

CreateOccurrence ==
    /\ occurrence = Null
    /\ ~thrown
    /\ LET created == createOccurrence(input.node, input.parent, input.loc, input.selection) IN
          /\ built' = created.built
          /\ IF IsError(created.result)
             THEN thrown' = TRUE /\ occurrence' = occurrence
             ELSE thrown' = thrown /\ occurrence' = created.result
    /\ UNCHANGED <<input, declaration, answers, modification>>
    /\ UNCHANGED convVars

\* editor.askUser resolves with one of the two choices, or with nothing
AskModificationDetails ==
    /\ occurrence # Null
    /\ declaration = Null
    /\ Len(answers) < MaxPrompts
    /\ IF occurrence.type = "MemberExpressionOccurrence"
       THEN \E choice \in {Null, [value |-> DestructureStrategy.Destructure],
                                 [value |-> DestructureStrategy.Preserve]} :
               /\ occurrence' = askModificationDetails(occurrence, choice)
               /\ answers' = Append(answers, choice)
       ELSE \* Occurrence.askModificationDetails resolves without asking
            /\ occurrence' = askModificationDetails(occurrence, Null)
            /\ answers' = answers
    /\ UNCHANGED <<input, thrown, declaration, built, modification>>
    /\ UNCHANGED convVars

\* toVariableDeclaration, called with the text of the extracted node
ToVariableDeclaration ==
    /\ occurrence # Null
    /\ declaration = Null
    /\ ~thrown
    /\ LET declared == toVariableDeclaration(occurrence, generate(input.node)) IN
          IF IsError(declared)
          THEN thrown' = TRUE /\ declaration' = declaration
          ELSE thrown' = thrown /\ declaration' = declared
    /\ UNCHANGED <<input, occurrence, built, answers, modification>>
    /\ UNCHANGED convVars

\* the modification getter of the occurrence
Modification ==
    /\ occurrence # Null
    /\ modification = Null
    /\ ~thrown
    /\ LET modified == getModification(occurrence) IN
          IF IsError(modified)
          THEN thrown' = TRUE /\ modification' = modification
          ELSE thrown' = thrown /\ modification' = modified
    /\ UNCHANGED <<input, occurrence, declaration, built, answers>>
    /\ UNCHANGED convVars

OccurrenceNext ==
    \/ CreateOccurrence
    \/ AskModificationDetails
    \/ ToVariableDeclaration
    \/ Modification

OccurrenceSpec == OccurrenceInit /\ [][OccurrenceNext]_vars

(***************************************************************************)
(* Vocabulary of the properties of the conversion.                         *)
(***************************************************************************)
RECURSIVE Links(_)
\* the links of the chain that starts at a conditional, in source order
Links(n) ==
    <<n>> \o (IF n.alternate.type = "IfStatement" THEN Links(n.alternate) ELSE <<>>)

\* the trailing else of a chain, or Null
TrailingElse(n) == LET ls == Links(n) IN ls[Len(ls)].alternate

AllIfStatements(ast) == IfStatementsInList(<<ast>>)

\* the heads of the chains: conditionals that are no other conditional's else-if
ChainHeads(ast) ==
    { n \in AllIfStatements(ast) : \A m \in AllIfStatements(ast) : m.alternate # n }

AllDecomposed(n) ==
    \A i \in 1 .. Len(Links(n)) : toSwitch(Links(n)[i].test) # Null

\* every link tests the discriminant of the first link, up to source locations
CommonDiscriminant(n) ==
    /\ AllDecomposed(n)
    /\ \A i \in 1 .. Len(Links(n)) :
          Strip(toSwitch(Links(n)[i].test).discriminant)
            = Strip(toSwitch(n.test).discriminant)

\* the tree updateCode's walk leaves
Transformed(text, sel) == Traverse(Parse(text), sel)

\* a conditional of the parsed text is still a conditional after the walk
Survives(n, text, sel) ==
    \E m \in AllIfStatements(Transformed(text, sel)) : m.loc = n.loc

RECURSIVE Substitute(_, _, _)
RECURSIVE SubstituteList(_, _, _)
\* the tree with one node replaced
Substitute(n, target, new) ==
    IF n = target THEN new
    ELSE CASE n.type = "BlockStatement" ->
                [n EXCEPT !.body = SubstituteList(n.body, target, new)]
           [] n.type = "IfStatement" ->
                [n EXCEPT !.consequent = Substitute(n.consequent, target, new),
                          !.alternate = Substitute(n.alternate, target, new)]
           [] n.type = "SwitchCase" ->
                [n EXCEPT !.consequent = SubstituteList(n.consequent, target, new)]
           [] n.type = "SwitchStatement" ->
                [n EXCEPT !.cases = SubstituteList(n.cases, target, new)]
           [] OTHER -> n

SubstituteList(l, target, new) ==
    IF l = <<>> THEN <<>>
    ELSE <<Substitute(Head(l), target, new)>> \o SubstituteList(Tail(l), target, new)

\* the conditionals that contain the selection and convert to a switch
Candidates(text, sel) ==
    { n \in AllIfStatements(Parse(text)) :
        isInsidePath(sel, n) /\ CommonDiscriminant(n) }

\* a candidate that contains no other candidate
Innermost(text, sel) ==
    { n \in Candidates(text, sel) :
        IfStatementsIn(n) \cap Candidates(text, sel) = {} }

WalkDone == pc = "idle" /\ path # Null
Written == calls # <<>> /\ calls[Len(calls)].op = "write"

(***************************************************************************)
(* C1.  All-or-nothing: whenever the selection lies inside a chain one of  *)
(* whose links has a test that is no equality comparison, updateCode       *)
(* replaces no link of that chain by a switch, and hasIfElseToConvert is   *)
(* false (stated here for the documents whose conditionals are all links   *)
(* of that chain, where nothing but a link can convert).                   *)
(***************************************************************************)
C1_AllOrNothing ==
    \A head \in ChainHeads(Parse(code)) :
        (isInsidePath(selection, head) /\ ~AllDecomposed(head))
          => /\ \A i \in 1 .. Len(Links(head)) :
                   Survives(Links(head)[i], code, selection)
             /\ Len(Links(head)) = Cardinality(AllIfStatements(Parse(code)))
                  => ~hasIfElseToConvert(code, selection)

(***************************************************************************)
(* C2.  Discriminant agreement: convert() returns a switch exactly when    *)
(* every link decomposed and every link's discriminant is structurally     *)
(* equal to the first link's; otherwise it returns the conditional itself. *)
(* The switch's discriminant is the one of the first link.                 *)
(***************************************************************************)
C2_DiscriminantAgreement ==
    WalkDone =>
        /\ (result.type = "SwitchStatement") <=> CommonDiscriminant(path)
        /\ result.type # "SwitchStatement" => result = path
        /\ result.type = "SwitchStatement"
             => result.discriminant = toSwitch(path.test).discriminant

C2_Witness ==
    /\ WalkDone
    /\ Len(Links(path)) >= 2
    /\ AllDecomposed(path)
    /\ ~CommonDiscriminant(path)
    /\ result = path

(***************************************************************************)
(* C3.  Soundness of chain conversion: when every test decomposes against  *)
(* one common discriminant the result is a switch with one case per link   *)
(* in source order, case i carrying link i's literal, a trailing else as a *)
(* last default case (null test) and only then, and every case's           *)
(* statements are the body kept verbatim when it ends in a return, else    *)
(* the body followed by exactly one break.                                 *)
(***************************************************************************)
CaseOf(test, statement) ==
    LET body == IF statement.type = "BlockStatement" THEN statement.body
                ELSE <<statement>>
    IN [type |-> "SwitchCase",
        test |-> test,
        consequent |-> IF body # <<>> /\ body[Len(body)].type = "ReturnStatement"
                       THEN body
                       ELSE body \o <<[type |-> "BreakStatement"]>>]

C3_SoundConversion ==
    (WalkDone /\ CommonDiscriminant(path)) =>
        LET ls == Links(path)
            else == TrailingElse(path)
        IN /\ result.type = "SwitchStatement"
           /\ Len(result.cases) = Len(ls) + (IF else = Null THEN 0 ELSE 1)
           /\ \A i \in 1 .. Len(ls) :
                 result.cases[i] = CaseOf(toSwitch(ls[i].test).test, ls[i].consequent)
           /\ else # Null => result.cases[Len(ls) + 1] = CaseOf(Null, else)
           /\ \A i \in 1 .. Len(result.cases) :
                 (result.cases[i].test = Null) <=> (else # Null /\ i = Len(ls) + 1)

C3_Witness ==
    /\ WalkDone
    /\ CommonDiscriminant(path)
    /\ Len(Links(path)) >= 2
    /\ TrailingElse(path) # Null
    /\ result.type = "SwitchStatement"
    /\ \E i \in 1 .. Len(result.cases) :
          result.cases[i].consequent[Len(result.cases[i].consequent)].type
            = "ReturnStatement"

(***************************************************************************)
(* C4.  Innermost-first precedence: a conditional that contains the        *)
(* selection and has a descendant that contains it and converts stays a    *)
(* conditional; one invocation of updateCode replaces exactly the          *)
(* innermost conditional that contains the selection and converts, and     *)
(* nothing when there is none.                                             *)
(***************************************************************************)
C4_InnermostFirst ==
    LET ast == Parse(code)
        new == Transformed(code, selection)
        candidates == Candidates(code, selection)
        surviving == { m.loc : m \in AllIfStatements(new) }
    IN /\ \A outer \in AllIfStatements(ast) :
             (/\ isInsidePath(selection, outer)
              /\ IfStatementsIn(outer) \cap candidates # {})
               => outer.loc \in surviving
       /\ candidates = {} => new = ast
       /\ candidates # {} =>
             \E n \in candidates :
                 /\ IfStatementsIn(n) \cap candidates = {}
                 /\ new = Substitute(ast, n, convert(n))

C4_Witness ==
    /\ invocations = 0
    /\ \E outer \in Candidates(code, selection) :
          /\ outer.consequent.type = "BlockStatement"
          /\ \E inner \in Innermost(code, selection) :
                inner = outer.consequent.body[1]
    /\ hasIfElseToConvert(code, selection)

C6_CommitOrReport ==
    /\ Len(calls) = invocations
    /\ \A i \in 1 .. Len(calls) :
          LET c == calls[i]
              new == Transformed(c.input, selection)
          IN /\ (c.op = "write") <=> (print(new) # print(c.input))
             /\ c.op = "write" => c.code = Strip(new)
             /\ c.op # "write" =>
                   /\ c.op = "showError"
                   /\ c.reason = "DidNotFoundIfElseToConvert"
    /\ calls # <<>> =>
          code = (IF calls[Len(calls)].op = "write" THEN calls[Len(calls)].code
                  ELSE calls[Len(calls)].input)

C6_Witness ==
    /\ invocations = 1
    /\ Written
    /\ code # calls[1].input

(***************************************************************************)
(* C10.  Conversion-state invariant: while a walk is in progress,          *)
(* canConvertAllBranches never goes from false to true, a discriminant     *)
(* that is set keeps its value, and the case list only grows by appending. *)
(***************************************************************************)
C10_ConversionState ==
    [][pc # "idle" =>
          /\ (~canConvertAllBranches => ~canConvertAllBranches')
          /\ (discriminant # Null => discriminant' = discriminant)
          /\ Len(cases') >= Len(cases)
          /\ SubSeq(cases', 1, Len(cases)) = cases]_vars

C10_Witness ==
    /\ pc = "convertAlternate"
    /\ ~canConvertAllBranches
    /\ discriminant # Null
    /\ Len(cases) >= 2

(***************************************************************************)
(* Vocabulary of the properties of the occurrences.                        *)
(***************************************************************************)
\* the strategy the answers so far leave selected: the last choice made, or
\* the Destructure default when every prompt was dismissed
ChosenStrategy ==
    LET chosen == { i \in 1 .. Len(answers) : answers[i] # Null } IN
    IF chosen = {} THEN "Destructure"
    ELSE answers[CHOOSE i \in chosen : \A j \in chosen : j <= i].value

\* the quasis with a source range that contain the selection
QuasisHolding(n, sel) ==
    { i \in 1 .. Len(n.quasis) :
        /\ "loc" \in DOMAIN n.quasis[i]
        /\ isInside(sel, fromAST(n.quasis[i].loc)) }

IsTemplateSubRange ==
    /\ input.node.type = "TemplateLiteral"
    /\ ~isEmpty(input.selection)

\* C7 (member-expression strategies): the strategy of a member-expression
\* occurrence is Destructure before any prompt, the value the user chose after
\* a prompt, and unchanged after a dismissed prompt; its declaration for a
\* non-computed access is `{ property }` = printed object under Destructure
\* and `property` = full access text under Preserve; for a computed access it
\* is the generic declaration whatever the strategy.
C7_MemberExpressionStrategies ==
    (occurrence # Null /\ occurrence.type = "MemberExpressionOccurrence") =>
        /\ occurrence.destructureStrategy = ChosenStrategy
        /\ declaration # Null =>
             IF input.node.computed
             THEN declaration =
                    OccurrenceToVariableDeclaration(
                        NewOccurrence(input.node, input.loc, occurrence.variable),
                        generate(input.node))
             ELSE IF ChosenStrategy = "Destructure"
             THEN declaration = [name |-> "{ " \o input.node.property.name \o " }",
                                 value |-> generate(input.node.object)]
             ELSE declaration = [name |-> input.node.property.name,
                                 value |-> generate(input.node)]

\* a Preserve choice, then a dismissed prompt, then the declaration
C7_Witness ==
    /\ occurrence # Null
    /\ occurrence.type = "MemberExpressionOccurrence"
    /\ ~input.node.computed
    /\ answers = <<[value |-> "Preserve"], Null>>
    /\ declaration = [name |-> "value", value |-> "obj.value"]

\* C8 (template partial-extraction line restriction): a selection of a
\* sub-range of a template literal that spans more than one line is never
\* classified as a partial template literal occurrence; it is classified as
\* the generic occurrence, and no candidate occurrence has been built.
C8_LineRestriction ==
    (occurrence # Null /\ IsTemplateSubRange /\ isMultiLines(input.selection)) =>
        /\ occurrence.type = "Occurrence"
        /\ built = 0

\* a multi-line selection inside one text segment of a template literal
C8_Witness ==
    /\ occurrence # Null
    /\ IsTemplateSubRange
    /\ isMultiLines(input.selection)
    /\ QuasisHolding(input.node, input.selection) # {}
    /\ occurrence.type = "Occurrence"

\* C9 (probe failures are downgraded): nothing is thrown; a selection of a
\* template literal that no text segment with a source range contains is
\* classified as the generic occurrence; and whenever isValid is true, the
\* construction, the declaration and the modification do not throw.
C9_ProbeFailuresDowngraded ==
    /\ ~thrown
    /\ (occurrence # Null /\ IsTemplateSubRange
          /\ QuasisHolding(input.node, input.selection) = {}) =>
         occurrence.type = "Occurrence"
    /\ (input.node.type = "TemplateLiteral"
          /\ PartialIsValid(input.node, input.parent, input.loc, input.selection)) =>
         LET occ == NewPartialTemplateLiteralOccurrence(input.node, input.parent,
                                                        input.loc, input.selection)
         IN /\ ~IsError(occ)
            /\ ~IsError(PartialToVariableDeclaration(occ))
            /\ ~IsError(PartialModification(occ))

\* a single-line template literal whose selection lies in no text segment
\* with a source range: the probe ran and failed, the occurrence is generic
C9_Witness ==
    /\ occurrence # Null
    /\ IsTemplateSubRange
    /\ ~isMultiLines(fromAST(input.loc))
    /\ QuasisHolding(input.node, input.selection) = {}
    /\ built = 1
    /\ occurrence.type = "Occurrence"
    /\ ~thrown

\* C11 (shorthand fallback): when the node can be written in shorthand
\* property form but its shorthand variable is not valid, createOccurrence
\* returns the generic occurrence, with the generic variable, at the loc given.
C11_ShorthandFallback ==
    (/\ occurrence # Null
     /\ input.node.type = "ObjectProperty"
     /\ ~input.node.computed
     /\ input.node.key.type = "Identifier"
     /\ input.node.key.name \in ReservedWords)
      => /\ occurrence.type = "Occurrence"
         /\ occurrence.variable.type = "Variable"
         /\ occurrence.node = input.node
         /\ occurrence.loc = input.loc

\* an object property whose key is a reserved word has been classified
C11_Witness ==
    /\ occurrence # Null
    /\ canBeShorthand(input.node)
    /\ ~ShorthandVariable(input.node, input.parent).isValid
    /\ occurrence.type = "Occurrence"

\* the quasi of the occurrence's template literal the selection lies in
SelectedIndex == Min(QuasisHolding(occurrence.node, input.selection))

\* the characters of the selected quasi before and after the selection
BeforeSelection ==
    LET quasi == occurrence.node.quasis[SelectedIndex] IN
    SubSeq(quasi.raw, 1, input.selection.start.character - quasi.loc.start.column)

AfterSelection ==
    LET quasi == occurrence.node.quasis[SelectedIndex] IN
    SubSeq(quasi.raw, input.selection.end.character - quasi.loc.start.column + 1,
           Len(quasi.raw))

PartialModified ==
    /\ occurrence # Null
    /\ occurrence.type = "PartialTemplateLiteralOccurrence"
    /\ modification # Null

\* C12 (the partial-template rewrite keeps the template well-formed): the
\* template literal that modification builds from one with n+1 quasis and n
\* expressions has n+2 quasis and n+1 expressions; the selected quasi i is
\* replaced by the pair (before, after), the new identifier is expression i,
\* every other quasi and every original expression is kept in order, and
\* each original expression keeps its two neighbouring text segments, so the
\* printed template is the original with the selection replaced by the
\* interpolated identifier.
C12_WellFormedRewrite ==
    PartialModified =>
        LET quasis == occurrence.node.quasis
            expressions == occurrence.node.expressions
            i == SelectedIndex
            new == modification.node
            id == [type |-> "Identifier", name |-> occurrence.variable.name]
        IN /\ Len(quasis) = Len(expressions) + 1
           /\ Len(new.quasis) = Len(quasis) + 1
           /\ Len(new.expressions) = Len(expressions) + 1
           /\ \A k \in 1 .. (i - 1) : new.quasis[k] = quasis[k]
           /\ new.quasis[i].raw = BeforeSelection
           /\ new.quasis[i + 1].raw = AfterSelection
           /\ \A k \in (i + 1) .. Len(quasis) : new.quasis[k + 1] = quasis[k]
           /\ \A k \in 1 .. (i - 1) : new.expressions[k] = expressions[k]
           /\ new.expressions[i] = id
           /\ \A k \in i .. Len(expressions) : new.expressions[k + 1] = expressions[k]
           /\ modification.code =
                generate([occurrence.node EXCEPT
                            !.quasis[i].raw =
                                BeforeSelection
                                  \o <<"${" \o occurrence.variable.name \o "}">>
                                  \o AfterSelection])

\* the selection lies in the middle of the first of two quasis: the new
\* identifier goes before the original expression
C12_Witness ==
    /\ PartialModified
    /\ Len(occurrence.node.quasis) = 2
    /\ SelectedIndex = 1
    /\ BeforeSelection # <<>>
    /\ modification.node.expressions[2] = occurrence.node.expressions[1]

====
